---- MODULE Spec2Model ----
(***************************************************************************)
(* Model of exec2.py (LoL Skin Changer): the SkinChangerApp controller,    *)
(* its three cascading selectors, the status line, the preview pane, the   *)
(* download button and the background threads it starts (catalog load,     *)
(* champion detail load, preview fetch, archive download).                  *)
(*                                                                         *)
(* Every thread started with threading.Thread is a process of the model;   *)
(* one model step is one statement of the thread's body that reads or      *)
(* writes a field of the controller, a widget or the cache directory,      *)
(* because the body does so with no lock.  A UI event handler runs on the  *)
(* Tk main loop and is one step.  The threads of one kind run the same     *)
(* code, so the live ones are kept as a bag; history variables (requests,  *)
(* last_load, last_preview, messagebox, explorer, presses) remember what   *)
(* the properties below speak about.                                       *)
(*                                                                         *)
(* Spec is the program without clicks on the download button, with any     *)
(* overlap of detail loads; DownloadSpec is the program with the button,    *)
(* from a loaded catalog on; NormalizeSpec applies normalize_cdragon_path  *)
(* to paths of its own.                                                    *)
(***************************************************************************)
EXTENDS Integers, Sequences, FiniteSets, Bags, TLC

(* ------------------------------ bounds -------------------------------- *)
\* number of user actions in one run that start a request: a champion
\* selection (a thread of _load_champ_data), a call of _show_image_async
\* or a click on the download button
MaxRequests == 3
\* length of the paths given to normalize_cdragon_path on its own, behind
\* their prefix
MaxPathLen == 3

(* --------------------------- text helpers ------------------------------ *)
\* A str is a sequence of characters; "" and None are both falsy in Python
\* and normalize_cdragon_path tests only `not path`, so both are <<>>.
StartsWith(s, p) == Len(s) >= Len(p) /\ SubSeq(s, 1, Len(p)) = p

HttpScheme == <<"h", "t", "t", "p", ":", "/", "/">>
HttpsScheme == <<"h", "t", "t", "p", "s", ":", "/", "/">>
\* "https://raw.communitydragon.org/latest", host and directory as one
\* symbol each
CDragonBase == HttpsScheme \o <<"raw.communitydragon.org", "/", "latest">>

normalize_cdragon_path(path) ==
    IF path = <<>> THEN <<>>
    ELSE IF StartsWith(path, HttpScheme) \/ StartsWith(path, HttpsScheme) THEN path
    ELSE CDragonBase \o (IF ~StartsWith(path, <<"/">>) THEN <<"/">> \o path ELSE path)

(* ------------------------ the remote catalog --------------------------- *)
\* What the CommunityDragon endpoints answer.  Two champions; the summary
\* is served unsorted.  A skin may lack the keys isBase, splashPath and
\* chromas (the code reads them with dict.get).
Ahri == [id |-> 1, name |-> "Ahri"]
Bard == [id |-> 2, name |-> "Bard"]
SummaryBody == <<Bard, Ahri>>
\* a summary whose second entry has no "name" key
SummaryMalformed == <<Bard, [id |-> 1]>>

AhriSkins ==
    << [name |-> "Ahri", isBase |-> TRUE, splashPath |-> <<"/", "a", "0">>,
        chromas |-> <<>>],
       [name |-> "Dynasty Ahri", isBase |-> FALSE, splashPath |-> <<"/", "a", "1">>,
        chromas |-> << [name |-> "Ruby", splashPath |-> <<"a", "1", "r">>],
                       [name |-> "Jade"] >>],
       [name |-> "Midnight Ahri"] >>

BardSkins ==
    << [name |-> "Elderwood Bard", isBase |-> FALSE,
        splashPath |-> HttpScheme \o <<"b", "1">>, chromas |-> <<>>],
       [name |-> "Bard", isBase |-> TRUE, splashPath |-> <<"b", "0">>,
        chromas |-> <<>>] >>

DetailBody(cid) == [id |-> cid, skins |-> IF cid = 1 THEN AhriSkins ELSE BardSkins]
\* a 200 answer with valid JSON but no "skins" key
DetailMalformed(cid) == [id |-> cid]

\* requests.get(...) + raise_for_status() + resp.json(): a body, or an
\* exception of requests (timeout, connection error, non-2xx status)
SummaryResponses ==
    { [ok |-> TRUE, body |-> SummaryBody],
      [ok |-> TRUE, body |-> SummaryMalformed],
      [ok |-> FALSE, body |-> <<>>] }
DetailResponses(cid) ==
    { [ok |-> TRUE, body |-> DetailBody(cid)],
      [ok |-> TRUE, body |-> DetailMalformed(cid)],
      [ok |-> FALSE, body |-> DetailMalformed(cid)] }

(* ------------------------------ strings -------------------------------- *)
None == [none |-> TRUE]
Placeholder == "-"
StatusLoadingChampions == "Chargement des champions..."
StatusChooseChampion == "Choisissez un champion."
StatusLoadingSkins == "Chargement des skins..."
StatusSelectSkin == "Selectionnez un skin."
\* f"Erreur chargement champions : {e}" and f"Erreur chargement skins : {e}"
ErrChampions(e) == "Erreur chargement champions : " \o e
ErrSkins(e) == "Erreur chargement skins : " \o e
ErrorStatuses ==
    { ErrChampions("timeout"), ErrChampions("'name'"),
      ErrSkins("timeout"), ErrSkins("'skins'") }

\* the texts of the preview label are sequences of pieces
NoText == <<>>
NoImage == <<>>
PlaceholderText == <<"[Impossible d'afficher l'image]">>
\* f"[Impossible d'afficher] {e}"
ErrorText(e) == <<"[Impossible d'afficher] ">> \o e
\* str() of the HTTPError, Timeout or ConnectionError of requests
RequestError(url) == <<"request failed for url: ">> \o url
NameErrorImage == <<"name 'Image' is not defined">>
\* ImageTk.PhotoImage(Image.open(...).resize((512, 288)))
Photo(url) == <<url, 512, 288>>

\* The names the module binds are io, os, subprocess, threading, requests,
\* Path, messagebox, tk, ttk and shutil: Image and ImageTk are not among them.
ImageBound == FALSE

(* ------------------------------- state --------------------------------- *)
VARIABLES
    champions,              \* self.champions
    current_champion_data,  \* self.current_champion_data
    var_champion,           \* self.var_champion
    var_skin,               \* self.var_skin
    var_chroma,             \* self.var_chroma
    cmb_champion,           \* self.cmb_champion["values"]
    cmb_skin,               \* self.cmb_skin["values"]
    cmb_chroma,             \* self.cmb_chroma["values"]
    var_status,             \* self.var_status
    preview_text,           \* text option of self.preview_label
    preview_image,          \* image option of self.preview_label
    populate_pc,            \* position of the thread of _populate_champions_async
    loads,                  \* the live threads of _load_champ_data
    previews,               \* the live threads of _show_image_async
    requests,               \* history: loads, calls of _show_image_async and clicks so far
    last_load,              \* history: the most recent champion selection
    last_preview,           \* history: the most recent call of _show_image_async
    downloads,              \* the live threads of download_selected_skin
    skin_cache,             \* the directory LOCAL_SKIN_CACHE on the disk
    messagebox,             \* history: the most recent message box shown
    explorer,               \* history: the file last shown by open_explorer
    presses,                \* history: clicks on the button "Telecharger" so far
    resolved                \* a call of normalize_cdragon_path on its own

vars == << champions, current_champion_data, var_champion, var_skin, var_chroma,
           cmb_champion, cmb_skin, cmb_chroma, var_status, preview_text,
           preview_image, populate_pc, loads, previews, requests, last_load,
           last_preview, downloads, skin_cache, messagebox, explorer, presses,
           resolved >>

data_vars == << champions, current_champion_data >>
sel_vars == << var_champion, var_skin, var_chroma >>
list_vars == << cmb_champion, cmb_skin, cmb_chroma >>
load_vars == << loads, last_load >>
preview_vars == << preview_text, preview_image, previews, last_preview >>
browse_vars == << data_vars, sel_vars, list_vars, var_status, preview_vars, populate_pc,
                  load_vars, requests >>
download_vars == << downloads, skin_cache, messagebox, explorer, presses >>
\* what the selectors and their threads never touch
aside_vars == << download_vars, resolved >>

\* last_load: the id asked for and where the thread stands ("none" before
\* the first selection, "run", "done", "failed")
NoLoad == [cid |-> 0, pc |-> "none"]
\* last_preview: the path asked for, where the call stands ("none", "run",
\* "done"), the body its thread fetched, the text the call has put on the
\* label and the thread that made the request of check_url_exists ("none"
\* when there was no such request, "handler" for the thread of the caller)
NoPreview ==
    [path |-> <<>>, pc |-> "none", body |-> "none", text |-> NoText, check |-> "none"]

\* the last message box: none yet
NoBox == [kind |-> "none", message |-> <<>>]
\* normalize_cdragon_path not called on its own
NotResolved == [path |-> <<>>, called |-> {}, plain |-> <<>>, slashed |-> <<>>]

\* SkinChangerApp.__init__ followed by _build_widgets; the catalog thread
\* has been started and has not run yet; line 91 has made the directory
Constructed ==
    /\ champions = <<>>
    /\ current_champion_data = None
    /\ var_champion = ""
    /\ var_skin = ""
    /\ var_chroma = ""
    /\ cmb_champion = <<>>
    /\ cmb_skin = <<>>
    /\ cmb_chroma = <<>>
    /\ var_status = StatusLoadingChampions
    /\ preview_text = NoText
    /\ preview_image = NoImage
    /\ populate_pc = "fetch"
    /\ loads = EmptyBag
    /\ previews = EmptyBag
    /\ requests = 0
    /\ last_load = NoLoad
    /\ last_preview = NoPreview
    /\ downloads = EmptyBag
    /\ skin_cache = [exists |-> TRUE, files |-> {}]
    /\ messagebox = NoBox
    /\ explorer = <<>>
    /\ presses = 0

Init == Constructed /\ resolved = NotResolved

(* ------------------------- sequence helpers ---------------------------- *)
Range(s) == { s[i] : i \in DOMAIN s }

\* d.get(key, default)
Get(d, key, default) == IF key \in DOMAIN d THEN d[key] ELSE default

\* [x["name"] for x in s]
Names(s) == [i \in DOMAIN s |-> s[i].name]

\* next((x for x in s if x["name"] == name), None)
FindByName(s, name) ==
    IF \E i \in DOMAIN s : s[i].name = name
    THEN s[CHOOSE i \in DOMAIN s :
               s[i].name = name /\ \A j \in 1..(i - 1) : s[j].name # name]
    ELSE None

\* the order of str on the names of the catalog
NameRank(n) == IF n = "Ahri" THEN 1 ELSE 2

\* x put behind every entry of the sorted s whose name is not greater
InsertByName(x, s) ==
    LET k == Cardinality({ i \in DOMAIN s : NameRank(s[i].name) <= NameRank(x.name) })
    IN SubSeq(s, 1, k) \o <<x>> \o SubSeq(s, k + 1, Len(s))

RECURSIVE SortedByName(_)
\* sorted(s, key=lambda c: c["name"]), a stable sort
SortedByName(s) ==
    IF s = <<>> THEN <<>>
    ELSE InsertByName(s[Len(s)], SortedByName(SubSeq(s, 1, Len(s) - 1)))

\* [s["name"] for s in data["skins"] if not s.get("isBase", False)]
NonBaseSkinNames(data) ==
    Names(SelectSeq(data.skins, LAMBDA s : ~Get(s, "isBase", FALSE)))

\* [c["name"] for c in skin.get("chromas", [])]
ChromaNames(skin) == Names(Get(skin, "chromas", <<>>))

(* --------------------------- thread helpers ---------------------------- *)
\* a newer request has been made: no live thread is the latest any more
\* threading.Thread(...).start(): one more live thread, the one of the most
\* recent request
Superseded(B) == BagOfAll(LAMBDA u : [u EXCEPT !.latest = FALSE], B)
Started(B, t) == Superseded(B) (+) SetToBag({t})
\* the thread t takes a step and becomes u
Stepped(B, t, u) == (B (-) SetToBag({t})) (+) SetToBag({u})
\* the thread t returns
Ended(B, t) == B (-) SetToBag({t})

(* ---------------- thread of _populate_champions_async ------------------ *)
\* line 170 storing the answer before sorting it in place:
\* self.champions = get_champion_summary(); self.champions.sort(...)
PopulateFetchStoreFirst ==
    /\ populate_pc = "fetch"
    /\ \E resp \in SummaryResponses :
         IF ~resp.ok
         THEN /\ var_status' = ErrChampions("timeout")
              /\ populate_pc' = "failed"
              /\ UNCHANGED champions
         ELSE IF \E i \in DOMAIN resp.body : "name" \notin DOMAIN resp.body[i]
         THEN /\ var_status' = ErrChampions("'name'")
              /\ populate_pc' = "failed"
              /\ champions' = resp.body
         ELSE /\ champions' = SortedByName(resp.body)
              /\ populate_pc' = "values"
              /\ UNCHANGED var_status
    /\ UNCHANGED << current_champion_data, sel_vars, list_vars, preview_vars,
                    load_vars, requests >>
    /\ UNCHANGED aside_vars

\* line 170: get_champion_summary(), sorted(...), the store to
\* self.champions; any exception goes to the handler of line 174
PopulateFetch ==
    /\ populate_pc = "fetch"
    /\ \E resp \in SummaryResponses :
         IF ~resp.ok
         THEN /\ var_status' = ErrChampions("timeout")
              /\ populate_pc' = "failed"
              /\ UNCHANGED champions
         ELSE IF \E i \in DOMAIN resp.body : "name" \notin DOMAIN resp.body[i]
         THEN /\ var_status' = ErrChampions("'name'")
              /\ populate_pc' = "failed"
              /\ UNCHANGED champions
         ELSE /\ champions' = SortedByName(resp.body)
              /\ populate_pc' = "values"
              /\ UNCHANGED var_status
    /\ UNCHANGED << current_champion_data, sel_vars, list_vars, preview_vars,
                    load_vars, requests >>
    /\ UNCHANGED aside_vars

\* line 171
PopulateValues ==
    /\ populate_pc = "values"
    /\ cmb_champion' = Names(champions)
    /\ populate_pc' = "status"
    /\ UNCHANGED << data_vars, sel_vars, cmb_skin, cmb_chroma, var_status,
                    preview_vars, load_vars, requests >>
    /\ UNCHANGED aside_vars

\* line 172
PopulateStatus ==
    /\ populate_pc = "status"
    /\ var_status' = StatusChooseChampion
    /\ populate_pc' = "done"
    /\ UNCHANGED << data_vars, sel_vars, list_vars, preview_vars, load_vars,
                    requests >>
    /\ UNCHANGED aside_vars

(* ----------------------- on_champion_selected -------------------------- *)
\* a thread of _load_champ_data: its argument, its position, its local
\* variable skins; whether it is the thread of the most recent champion
\* selection, whether nothing at all has been selected since it started
\* and, for such a thread, what its request brought ("none", "detail",
\* "malformed")
LoadThread(cid) ==
    [cid |-> cid, pc |-> "fetch", skins |-> <<>>, latest |-> TRUE, quiet |-> TRUE,
     got |-> "none"]
\* a skin or a chroma has been selected
Disturbed(B) == BagOfAll(LAMBDA u : [u EXCEPT !.quiet = FALSE, !.got = "none"], B)
\* threading.Thread(...).start() of line 141
LoadStarted(B, cid) ==
    BagOfAll(LAMBDA u : [u EXCEPT !.latest = FALSE, !.quiet = FALSE, !.got = "none"], B)
        (+) SetToBag({LoadThread(cid)})

\* The user picks an entry of the read-only champion combobox: the widget
\* stores it in var_champion and raises <<ComboboxSelected>>.
on_champion_selected(name) ==
    /\ requests < MaxRequests
    /\ name \in Range(cmb_champion)
    /\ var_champion' = name
    /\ LET champ == FindByName(champions, name)
       IN IF name = "" \/ champ = None
          THEN UNCHANGED << var_status, load_vars, requests >>
          ELSE /\ var_status' = StatusLoadingSkins
               /\ loads' = LoadStarted(loads, champ.id)
               /\ last_load' = [cid |-> champ.id, pc |-> "run"]
               /\ requests' = requests + 1
    /\ UNCHANGED << data_vars, var_skin, var_chroma, list_vars, preview_vars,
                    populate_pc >>
    /\ UNCHANGED aside_vars

(* ------------------------- _load_champ_data ---------------------------- *)
LoadAt(t, pc) == t \in BagToSet(loads) /\ t.pc = pc
LoadGoto(t, pc) ==
    /\ loads' = Stepped(loads, t, [t EXCEPT !.pc = pc])
    /\ UNCHANGED last_load
\* the thread returns, normally ("done") or from the handler of line 187
LoadEnd(t, how) ==
    /\ loads' = Ended(loads, t)
    /\ last_load' = IF t.latest THEN [last_load EXCEPT !.pc = how] ELSE last_load

\* line 179: the request, and on success the store to
\* self.current_champion_data; an exception of requests goes to line 187
LoadFetch(t) ==
    /\ LoadAt(t, "fetch")
    /\ \E resp \in DetailResponses(t.cid) :
         IF resp.ok
         THEN /\ current_champion_data' = resp.body
              /\ loads' = Stepped(loads, t,
                     [t EXCEPT !.pc = "filter",
                               !.got = IF ~t.quiet THEN "none"
                                       ELSE IF "skins" \in DOMAIN resp.body
                                       THEN "detail" ELSE "malformed"])
              /\ UNCHANGED << var_status, last_load >>
         ELSE /\ var_status' = ErrSkins("timeout")
              /\ LoadEnd(t, "failed")
              /\ UNCHANGED current_champion_data
    /\ UNCHANGED << champions, sel_vars, list_vars, preview_vars, populate_pc,
                    requests >>
    /\ UNCHANGED aside_vars

\* line 180: the comprehension reads self.current_champion_data again;
\* a detail without "skins" raises KeyError, handled at line 187
LoadFilter(t) ==
    /\ LoadAt(t, "filter")
    /\ IF "skins" \in DOMAIN current_champion_data
       THEN /\ loads' = Stepped(loads, t,
                   [t EXCEPT !.pc = "set_skins",
                             !.skins = NonBaseSkinNames(current_champion_data)])
            /\ UNCHANGED << var_status, last_load >>
       ELSE /\ var_status' = ErrSkins("'skins'")
            /\ LoadEnd(t, "failed")
    /\ UNCHANGED << data_vars, sel_vars, list_vars, preview_vars, populate_pc,
                    requests >>
    /\ UNCHANGED aside_vars

\* line 181; skins is not read after it
LoadSetSkins(t) ==
    /\ LoadAt(t, "set_skins")
    /\ cmb_skin' = t.skins
    /\ loads' = Stepped(loads, t, [t EXCEPT !.pc = "clear_skin", !.skins = <<>>])
    /\ UNCHANGED << data_vars, sel_vars, cmb_champion, cmb_chroma, var_status,
                    preview_vars, populate_pc, requests, last_load >>
    /\ UNCHANGED aside_vars

\* line 182
LoadClearSkin(t) ==
    /\ LoadAt(t, "clear_skin")
    /\ var_skin' = ""
    /\ LoadGoto(t, "clear_chromas")
    /\ UNCHANGED << data_vars, var_champion, var_chroma, list_vars, var_status,
                    preview_vars, populate_pc, requests >>
    /\ UNCHANGED aside_vars

\* line 183
LoadClearChromas(t) ==
    /\ LoadAt(t, "clear_chromas")
    /\ cmb_chroma' = <<>>
    /\ LoadGoto(t, "clear_chroma")
    /\ UNCHANGED << data_vars, sel_vars, cmb_champion, cmb_skin, var_status,
                    preview_vars, populate_pc, requests >>
    /\ UNCHANGED aside_vars

\* line 184
LoadClearChroma(t) ==
    /\ LoadAt(t, "clear_chroma")
    /\ var_chroma' = ""
    /\ LoadGoto(t, "status")
    /\ UNCHANGED << data_vars, var_champion, var_skin, list_vars, var_status,
                    preview_vars, populate_pc, requests >>
    /\ UNCHANGED aside_vars

\* line 185, and the return
LoadStatus(t) ==
    /\ LoadAt(t, "status")
    /\ var_status' = StatusSelectSkin
    /\ LoadEnd(t, "done")
    /\ UNCHANGED << data_vars, sel_vars, list_vars, preview_vars, populate_pc,
                    requests >>
    /\ UNCHANGED aside_vars

(* ------------------------- _show_image_async --------------------------- *)
\* what requests.get(url) of line 223 can bring: an exception (also from
\* raise_for_status) or the bytes of an image
PreviewBodies == {"error", "image"}

\* a thread of task(): the path its url was made from
PreviewThread(path) == [path |-> path, latest |-> TRUE]

\* line 217: `not url or check_url_exists(url)` calls check_url_exists, in
\* the thread that runs _show_image_async, only for a non-empty url
CheckedBy(url) == IF url = <<>> THEN "none" ELSE "handler"

\* lines 216-219 with line 218 left out: the early return says nothing
ShowImageSilent(path) ==
    LET url == normalize_cdragon_path(path)
    IN /\ requests' = requests + 1
       /\ \E exists \in BOOLEAN :
            IF url = <<>> \/ ~exists
            THEN /\ previews' = Superseded(previews)
                 /\ last_preview' = [path |-> path, pc |-> "done", body |-> "none",
                                     text |-> preview_text, check |-> CheckedBy(url)]
                 /\ UNCHANGED << preview_text, preview_image >>
            ELSE /\ previews' = Started(previews, [path |-> path, latest |-> TRUE])
                 /\ last_preview' = [path |-> path, pc |-> "run", body |-> "none",
                                     text |-> NoText, check |-> CheckedBy(url)]
                 /\ UNCHANGED << preview_text, preview_image >>

\* lines 216-219, and the start of the thread of line 232.  The call runs
\* in the handler; check_url_exists answers TRUE only for a status 200.
ShowImage(path) ==
    LET url == normalize_cdragon_path(path)
    IN /\ requests' = requests + 1
       /\ \E exists \in BOOLEAN :
            IF url = <<>> \/ ~exists
            THEN /\ preview_text' = PlaceholderText
                 /\ previews' = Superseded(previews)
                 /\ last_preview' = [path |-> path, pc |-> "done", body |-> "none",
                                     text |-> PlaceholderText,
                                     check |-> CheckedBy(url)]
                 /\ UNCHANGED preview_image
            ELSE /\ previews' = Started(previews, PreviewThread(path))
                 /\ last_preview' = [path |-> path, pc |-> "run", body |-> "none",
                                     text |-> NoText, check |-> CheckedBy(url)]
                 /\ UNCHANGED << preview_text, preview_image >>

\* what task() of lines 221-231 puts on the label for a fetched body: the
\* first element is the text, the second the image.  Image.open is reached
\* only after a good answer, and raises NameError when Image is not bound.
PreviewOutcome(url, body, image) ==
    IF body = "error" THEN <<ErrorText(RequestError(url)), image>>
    ELSE IF ~ImageBound THEN <<ErrorText(NameErrorImage), image>>
    ELSE <<NoText, Photo(url)>>

\* lines 221-231: the thread touches nothing shared before its one call of
\* preview_label.configure, so the request and that call are one step
PreviewTask(t) ==
    /\ t \in BagToSet(previews)
    /\ \E body \in PreviewBodies :
         LET out == PreviewOutcome(normalize_cdragon_path(t.path), body, preview_image)
         IN /\ preview_text' = out[1]
            /\ preview_image' = out[2]
            /\ last_preview' = IF t.latest
                               THEN [last_preview EXCEPT !.pc = "done", !.body = body,
                                                         !.text = out[1]]
                               ELSE last_preview
    /\ previews' = Ended(previews, t)
    /\ UNCHANGED << data_vars, sel_vars, list_vars, var_status, populate_pc,
                    load_vars, requests >>
    /\ UNCHANGED aside_vars

(* ------------------ on_skin_selected, on_chroma_selected --------------- *)
\* line 151 without its `or ["-"]`
ChromaValuesNoPlaceholder(skin) == ChromaNames(skin)

\* line 151: chroma_names or ["-"]
ChromaValues(skin) ==
    IF ChromaNames(skin) = <<>> THEN <<Placeholder>> ELSE ChromaNames(skin)

\* line 152
FirstChroma(skin) ==
    IF ChromaNames(skin) = <<>> THEN Placeholder ELSE ChromaNames(skin)[1]

\* The user picks an entry of the read-only skin combobox.  A detail
\* without "skins" makes line 147 raise KeyError: Tk reports it and the
\* main loop goes on.
on_skin_selected(name) ==
    /\ requests < MaxRequests
    /\ name \in Range(cmb_skin)
    /\ var_skin' = name
    /\ loads' = Disturbed(loads)
    /\ LET data == current_champion_data
           skin == IF "skins" \in DOMAIN data THEN FindByName(data.skins, name) ELSE None
       IN IF name = "" \/ data = None \/ skin = None
          THEN UNCHANGED << var_chroma, cmb_chroma, preview_vars, requests >>
          ELSE /\ cmb_chroma' = ChromaValues(skin)
               /\ var_chroma' = FirstChroma(skin)
               /\ ShowImage(Get(skin, "splashPath", <<>>))
    /\ UNCHANGED << data_vars, var_champion, cmb_champion, cmb_skin, var_status,
                    populate_pc, last_load >>
    /\ UNCHANGED aside_vars

\* The user picks an entry of the read-only chroma combobox.
on_chroma_selected(name) ==
    /\ requests < MaxRequests
    /\ name \in Range(cmb_chroma)
    /\ var_chroma' = name
    /\ loads' = Disturbed(loads)
    /\ LET data == current_champion_data
           skin == IF "skins" \in DOMAIN data THEN FindByName(data.skins, var_skin) ELSE None
           chroma == IF skin = None THEN None
                     ELSE FindByName(Get(skin, "chromas", <<>>), name)
       IN IF name \in {Placeholder, ""} \/ chroma = None
          THEN UNCHANGED << preview_vars, requests >>
          ELSE ShowImage(Get(chroma, "splashPath", <<>>))
    /\ UNCHANGED << data_vars, var_champion, var_skin, list_vars, var_status,
                    populate_pc, last_load >>
    /\ UNCHANGED aside_vars

(* ---------------------- download_selected_skin ------------------------ *)
StatusDownloading == "Telechargement..."
StatusDownloaded == "Telechargement termine."
StatusDownloadError == "Erreur telechargement"

\* GITHUB_ZIP_BASE, as one piece
GithubZipBase == <<"https://raw.githubusercontent.com/darkseal-org/lol-skins/main/skins/">>
\* f"{skin}.zip"
ZipName(skin) == <<skin, ".zip">>
\* line 57: f"{GITHUB_ZIP_BASE}{champion}/{zip_name}"
ZipUrl(champion, zip_name) == GithubZipBase \o <<champion, "/">> \o zip_name
\* line 62: target_dir / f"{zip_name}"
TargetFile(zip_name) == <<"skin-cache", "/">> \o zip_name
\* str() of the FileNotFoundError of open(target_file, 'wb')
NoSuchDirectory(file) == <<"[Errno 2] No such file or directory: ">> \o file

\* the message boxes of lines 194, 203 and 207
WarningBox == [kind |-> "warning", message |-> <<"Choisissez un champion et un skin.">>]
InfoBox(skin) == [kind |-> "info", message |-> <<"Le skin '", skin, "' a ete telecharge.">>]
ErrorBox(e) == [kind |-> "error", message |-> e]

\* a thread of task() of lines 197-207: the names it closed over, its
\* position, the requests it has made, whether its request was answered
\* with the archive, whether it has written the file, and the str() of the
\* exception it caught
DownloadThread(champ, skin) ==
    [champ |-> champ, skin |-> skin, pc |-> "begin", tries |-> 0, fetched |-> FALSE,
     wrote |-> FALSE, error |-> <<>>]

browse_but_status == << data_vars, sel_vars, list_vars, preview_vars, populate_pc,
                        load_vars >>

\* lines 193-195 with the test of line 193 on the champion alone
DownloadChecksChampionOnly ==
    /\ requests < MaxRequests
    /\ requests' = requests + 1
    /\ presses' = presses + 1
    /\ IF var_champion = ""
       THEN /\ messagebox' = WarningBox
            /\ UNCHANGED downloads
       ELSE /\ downloads' = downloads (+) SetToBag({DownloadThread(var_champion, var_skin)})
            /\ UNCHANGED messagebox
    /\ UNCHANGED << browse_but_status, var_status, skin_cache, explorer, resolved >>

\* The user clicks "Telecharger": lines 191-195, and the start of the
\* thread of line 208.
download_selected_skin ==
    /\ requests < MaxRequests
    /\ requests' = requests + 1
    /\ presses' = presses + 1
    /\ IF var_champion = "" \/ var_skin = ""
       THEN /\ messagebox' = WarningBox
            /\ UNCHANGED downloads
       ELSE /\ downloads' = downloads (+) SetToBag({DownloadThread(var_champion, var_skin)})
            /\ UNCHANGED messagebox
    /\ UNCHANGED << browse_but_status, var_status, skin_cache, explorer, resolved >>

\* line 199
DownloadBegin(t) ==
    /\ t \in BagToSet(downloads)
    /\ t.pc = "begin"
    /\ var_status' = StatusDownloading
    /\ downloads' = Stepped(downloads, t, [t EXCEPT !.pc = "fetch"])
    /\ UNCHANGED << browse_but_status, requests, skin_cache, messagebox, explorer,
                    presses, resolved >>

\* download_zip asking the mirror again after a bad answer
DownloadZipAgain(t, ok, cache) ==
    IF ~ok
    THEN << [t EXCEPT !.tries = @ + 1], cache >>
    ELSE IF ~cache.exists
    THEN << [t EXCEPT !.pc = "error", !.tries = @ + 1, !.fetched = TRUE,
                      !.error = NoSuchDirectory(TargetFile(ZipName(t.skin)))],
            cache >>
    ELSE << [t EXCEPT !.pc = "finish", !.tries = @ + 1, !.fetched = TRUE,
                      !.wrote = TRUE],
            [cache EXCEPT !.files = @ \cup {ZipName(t.skin)}] >>

\* what download_zip (lines 57-65) does to the thread and to the directory
\* for an answer of the mirror: raise_for_status raises for a bad one;
\* open(target_file, 'wb') raises FileNotFoundError without the directory
DownloadZip(t, ok, cache) ==
    IF ~ok
    THEN << [t EXCEPT !.pc = "error", !.tries = @ + 1,
                      !.error = RequestError(ZipUrl(t.champ, ZipName(t.skin)))],
            cache >>
    ELSE IF ~cache.exists
    THEN << [t EXCEPT !.pc = "error", !.tries = @ + 1, !.fetched = TRUE,
                      !.error = NoSuchDirectory(TargetFile(ZipName(t.skin)))],
            cache >>
    ELSE << [t EXCEPT !.pc = "finish", !.tries = @ + 1, !.fetched = TRUE,
                      !.wrote = TRUE],
            [cache EXCEPT !.files = @ \cup {ZipName(t.skin)}] >>

\* lines 200-201: the request and the write of download_zip
DownloadFetch(t) ==
    /\ t \in BagToSet(downloads)
    /\ t.pc = "fetch"
    /\ \E ok \in BOOLEAN :
         LET out == DownloadZip(t, ok, skin_cache)
         IN /\ downloads' = Stepped(downloads, t, out[1])
            /\ skin_cache' = out[2]
    /\ UNCHANGED << browse_vars, messagebox, explorer, presses, resolved >>

\* lines 202-204, and the return
DownloadFinish(t) ==
    /\ t \in BagToSet(downloads)
    /\ t.pc = "finish"
    /\ var_status' = StatusDownloaded
    /\ messagebox' = InfoBox(t.skin)
    /\ explorer' = TargetFile(ZipName(t.skin))
    /\ downloads' = Ended(downloads, t)
    /\ UNCHANGED << browse_but_status, requests, skin_cache, presses, resolved >>

\* lines 205-207, and the return
DownloadFail(t) ==
    /\ t \in BagToSet(downloads)
    /\ t.pc = "error"
    /\ var_status' = StatusDownloadError
    /\ messagebox' = ErrorBox(t.error)
    /\ downloads' = Ended(downloads, t)
    /\ UNCHANGED << browse_but_status, requests, skin_cache, explorer, presses,
                    resolved >>

\* The user removes the directory of line 15 while the program runs.
RemoveCacheDir ==
    /\ skin_cache.exists
    /\ skin_cache' = [exists |-> FALSE, files |-> {}]
    /\ UNCHANGED << browse_vars, downloads, messagebox, explorer, presses, resolved >>

(* --------------------------- specification ----------------------------- *)
ChampionNames == {"Ahri", "Bard"}
SkinNames == Range(Names(AhriSkins)) \cup Range(Names(BardSkins))
ChromaEntries == {Placeholder, "Ruby", "Jade"}

Next ==
    \/ PopulateFetch
    \/ PopulateValues
    \/ PopulateStatus
    \/ \E name \in ChampionNames : on_champion_selected(name)
    \/ \E name \in SkinNames : on_skin_selected(name)
    \/ \E name \in ChromaEntries : on_chroma_selected(name)
    \/ \E t \in BagToSet(loads) : LoadFetch(t)
    \/ \E t \in BagToSet(loads) : LoadFilter(t)
    \/ \E t \in BagToSet(loads) : LoadSetSkins(t)
    \/ \E t \in BagToSet(loads) : LoadClearSkin(t)
    \/ \E t \in BagToSet(loads) : LoadClearChromas(t)
    \/ \E t \in BagToSet(loads) : LoadClearChroma(t)
    \/ \E t \in BagToSet(loads) : LoadStatus(t)
    \/ \E t \in BagToSet(previews) : PreviewTask(t)

Spec == Init /\ [][Next]_vars

(* ------------------- the program with its button ---------------------- *)
\* The runs of DownloadSpec start where the catalog thread has ended well
\* and either no champion has been selected yet or one has been selected
\* and its detail loaded; requests and presses count from there.
DownloadInit ==
    /\ champions = SortedByName(SummaryBody)
    /\ cmb_champion = Names(SortedByName(SummaryBody))
    /\ populate_pc = "done"
    /\ \E c \in {None, Ahri, Bard} :
         IF c = None
         THEN /\ var_champion = ""
              /\ current_champion_data = None
              /\ cmb_skin = <<>>
              /\ var_status = StatusChooseChampion
              /\ last_load = NoLoad
         ELSE /\ var_champion = c.name
              /\ current_champion_data = DetailBody(c.id)
              /\ cmb_skin = NonBaseSkinNames(DetailBody(c.id))
              /\ var_status = StatusSelectSkin
              /\ last_load = [cid |-> c.id, pc |-> "done"]
    /\ var_skin = ""
    /\ var_chroma = ""
    /\ cmb_chroma = <<>>
    /\ preview_text = NoText
    /\ preview_image = NoImage
    /\ loads = EmptyBag
    /\ previews = EmptyBag
    /\ requests = 0
    /\ last_preview = NoPreview
    /\ downloads = EmptyBag
    /\ skin_cache = [exists |-> TRUE, files |-> {}]
    /\ messagebox = NoBox
    /\ explorer = <<>>
    /\ presses = 0
    /\ resolved = NotResolved

\* Every action of the program but the catalog thread, which has ended.
\* In these runs the user picks the next champion only once the detail load
\* of the previous one has ended; Spec has the runs with overlapping loads.
DownloadNext ==
    \/ /\ loads = EmptyBag
       /\ \E name \in ChampionNames : on_champion_selected(name)
    \/ \E name \in SkinNames : on_skin_selected(name)
    \/ \E name \in ChromaEntries : on_chroma_selected(name)
    \/ \E t \in BagToSet(loads) : LoadFetch(t)
    \/ \E t \in BagToSet(loads) : LoadFilter(t)
    \/ \E t \in BagToSet(loads) : LoadSetSkins(t)
    \/ \E t \in BagToSet(loads) : LoadClearSkin(t)
    \/ \E t \in BagToSet(loads) : LoadClearChromas(t)
    \/ \E t \in BagToSet(loads) : LoadClearChroma(t)
    \/ \E t \in BagToSet(loads) : LoadStatus(t)
    \/ \E t \in BagToSet(previews) : PreviewTask(t)
    \/ download_selected_skin
    \/ \E t \in BagToSet(downloads) : DownloadBegin(t)
    \/ \E t \in BagToSet(downloads) : DownloadFetch(t)
    \/ \E t \in BagToSet(downloads) : DownloadFinish(t)
    \/ \E t \in BagToSet(downloads) : DownloadFail(t)
    \/ RemoveCacheDir

DownloadSpec == DownloadInit /\ [][DownloadNext]_vars

\* a step of a thread of task() of lines 197-207
DownloadStep ==
    \E t \in BagToSet(downloads) :
        DownloadBegin(t) \/ DownloadFetch(t) \/ DownloadFinish(t) \/ DownloadFail(t)

\* The operating system runs every started thread; requests.get returns or
\* raises within its timeout of 60 s and the message boxes are answered.
DownloadFair == DownloadSpec /\ WF_vars(DownloadStep)

(* -------------------- normalize_cdragon_path alone --------------------- *)
\* the paths of at most n characters over "/" and "a"
RECURSIVE PathsUpTo(_)
PathsUpTo(n) ==
    IF n = 0 THEN {<<>>}
    ELSE PathsUpTo(n - 1)
         \cup { p \o <<c>> : p \in PathsUpTo(n - 1), c \in {"/", "a"} }

\* Arguments of normalize_cdragon_path: relative paths with and without
\* leading slashes, absolute URLs of both schemes, and paths that only look
\* like one ("http:/" with a single slash).
PathInputs ==
    { pre \o p : pre \in {<<>>, HttpScheme, HttpsScheme, <<"h", "t", "t", "p", ":", "/">>},
                 p \in PathsUpTo(MaxPathLen) }

NormalizeInit ==
    /\ Constructed
    /\ \E p \in PathInputs : resolved = [NotResolved EXCEPT !.path = p]

\* normalize_cdragon_path(path)
Normalize ==
    /\ "plain" \notin resolved.called
    /\ resolved' = [resolved EXCEPT !.called = @ \cup {"plain"},
                                    !.plain = normalize_cdragon_path(resolved.path)]
    /\ UNCHANGED << browse_vars, download_vars >>

\* normalize_cdragon_path('/' + path)
NormalizeSlashed ==
    /\ "slashed" \notin resolved.called
    /\ resolved' = [resolved EXCEPT !.called = @ \cup {"slashed"},
                                    !.slashed = normalize_cdragon_path(<<"/">> \o resolved.path)]
    /\ UNCHANGED << browse_vars, download_vars >>

NormalizeNext == Normalize \/ NormalizeSlashed

NormalizeSpec == NormalizeInit /\ [][NormalizeNext]_vars

(* ----------------------------- properties ------------------------------ *)
\* the skins of the champion of that name in the remote catalog
SkinsOfChampion(name) ==
    IF name = Ahri.name THEN AhriSkins ELSE IF name = Bard.name THEN BardSkins ELSE <<>>
\* the well-formed detail of the most recent champion selection
LastDetail == DetailBody(last_load.cid)
NonBaseOf(skins) == Names(SelectSeq(skins, LAMBDA s : ~("isBase" \in DOMAIN s /\ s.isBase)))

\* C1: when a champion was selected after another and every detail load has
\* ended, the load of the most recent selection having succeeded and a
\* well-formed detail being held, the held detail and the skin list are
\* those of the most recent selection, never those of the earlier one.
C1_StaleDetailNeverApplied ==
    ( /\ loads = EmptyBag
      /\ last_load.pc = "done"
      /\ "skins" \in DOMAIN current_champion_data )
    => /\ current_champion_data = LastDetail
       /\ cmb_skin = NonBaseOf(LastDetail.skins)

\* C2: in every state the skin list is empty or made of skins of the
\* selected champion, and the chroma list is empty, the placeholder or the
\* chromas of the selected skin.
C2_ListsMatchSelection ==
    /\ \/ cmb_skin = <<>>
       \/ Range(cmb_skin) \subseteq Range(Names(SkinsOfChampion(var_champion)))
    /\ \/ cmb_chroma \in {<<>>, <<Placeholder>>}
       \/ \E i \in DOMAIN SkinsOfChampion(var_champion) :
            LET skin == SkinsOfChampion(var_champion)[i]
            IN /\ skin.name = var_skin
               /\ "chromas" \in DOMAIN skin
               /\ cmb_chroma = Names(skin.chromas)

\* C3: the step that ends the load of the most recent champion selection
\* successfully, its request having brought the champion's detail and
\* nothing having been selected in between, leaves the skin list equal to
\* the names of the detail's skins that are not base skins, in order, the
\* skin and chroma selections empty, the chroma list empty and the status
\* "select a skin".
C3_LoadedSkinList ==
    [][ ( /\ last_load.pc = "run"
          /\ last_load'.pc = "done"
          /\ \E t \in BagToSet(loads) : t.latest /\ t.quiet /\ t.got = "detail" )
        => /\ cmb_skin' = NonBaseOf(DetailBody(last_load.cid).skins)
           /\ var_skin' = ""
           /\ var_chroma' = ""
           /\ cmb_chroma' = <<>>
           /\ var_status' = StatusSelectSkin ]_vars

\* C4: the step of a champion selection that starts a detail load (one more
\* live thread of _load_champ_data) leaves the skin and chroma selections
\* and both lists empty and the status "loading skins".
C4_SelectionClears ==
    [][ BagCardinality(loads') = BagCardinality(loads) + 1
        => /\ var_skin' = ""
           /\ var_chroma' = ""
           /\ cmb_skin' = <<>>
           /\ cmb_chroma' = <<>>
           /\ var_status' = StatusLoadingSkins ]_vars

\* C5: the step in which the detail load of the most recent champion
\* selection fails leaves an error message in the status line and the skin
\* list empty.
C5_FailedLoadEmptiesSkins ==
    [][ (last_load.pc = "run" /\ last_load'.pc = "failed")
        => /\ var_status' \in ErrorStatuses
           /\ cmb_skin' = <<>> ]_vars

\* C6: a skin selection that finds the skin in the held detail makes exactly
\* one preview call, for the skin's own splash path; it sets the chroma list
\* to the one placeholder and selects it when the skin has no chromas, and
\* to the chroma names in order, the first selected, when it has some.
C6_SkinSelection ==
    [][ \A name \in SkinNames :
          LET data == current_champion_data
              found == /\ "skins" \in DOMAIN data
                       /\ \E i \in DOMAIN data.skins : data.skins[i].name = name
              skin == data.skins[CHOOSE i \in DOMAIN data.skins : data.skins[i].name = name]
              chromas == IF "chromas" \in DOMAIN skin THEN skin.chromas ELSE <<>>
              splash == IF "splashPath" \in DOMAIN skin THEN skin.splashPath ELSE <<>>
          IN (on_skin_selected(name) /\ found)
             => /\ requests' = requests + 1
                /\ last_preview'.path = splash
                /\ IF chromas = <<>>
                   THEN cmb_chroma' = <<Placeholder>> /\ var_chroma' = Placeholder
                   ELSE /\ Len(cmb_chroma') = Len(chromas)
                        /\ \A k \in DOMAIN chromas : cmb_chroma'[k] = chromas[k].name
                        /\ var_chroma' = chromas[1].name ]_vars

\* C6 witness: a skin without chromas and without splash path has been
\* selected: the placeholder is listed and selected and the preview call
\* for the absent path has been made.
C6_Witness ==
    /\ var_skin = "Midnight Ahri"
    /\ cmb_chroma = <<Placeholder>>
    /\ var_chroma = Placeholder
    /\ last_preview.pc = "done"
    /\ last_preview.path = <<>>

\* C7: after a failed catalog load the status line shows the error, the
\* champion selector has no entry and self.champions is empty, in that
\* state and in every later one.
C7_CatalogFailure ==
    populate_pc = "failed"
    => /\ var_status \in {ErrChampions("timeout"), ErrChampions("'name'")}
       /\ cmb_champion = <<>>
       /\ champions = <<>>
       /\ loads = EmptyBag

\* C7 witness: the catalog request timed out.
C7_Witness == populate_pc = "failed" /\ var_status = ErrChampions("timeout")

\* C8: the step in which the thread of the most recent preview call ends
\* after fetching the bytes of an image leaves that image, at 512x288, on
\* the preview label and the overlay text empty.
C8_ImageDisplayed ==
    [][ (last_preview.pc = "run" /\ last_preview'.pc = "done"
         /\ last_preview'.body = "image")
        => /\ preview_image' = <<normalize_cdragon_path(last_preview.path), 512, 288>>
           /\ preview_text' = <<>> ]_vars

\* a preview call ends in this step: in the handler, or with its thread
PreviewEnds ==
    \/ requests' = requests + 1 /\ last_preview'.pc = "done"
    \/ BagCardinality(previews') < BagCardinality(previews)

\* C9: a preview call that ends without a decoded image leaves a non-empty
\* text on the preview label and the image as it was; the image changes only
\* to a decoded image, never to none.
C9_FailedPreviewKeepsImage ==
    [][ /\ PreviewEnds =>
             \/ preview_text' # <<>> /\ preview_image' = preview_image
             \/ preview_text' = <<>> /\ preview_image' # preview_image
        /\ preview_image' # preview_image => preview_image' # <<>> ]_vars

\* C9 witness: the request for the image failed; the label shows the error
\* text over the image it had.
C9_Witness ==
    /\ last_preview.pc = "done"
    /\ last_preview.body = "error"
    /\ preview_text = last_preview.text
    /\ preview_text # <<>>

\* C10: once every preview thread has ended, the text of the preview label
\* is the one the most recent preview call produced.
C10_StalePreviewNeverApplied ==
    (previews = EmptyBag /\ last_preview.pc = "done")
    => preview_text = last_preview.text

\* C11: a click on the download button with no champion or no skin selected
\* shows the warning and does nothing else: it starts no thread of any
\* kind, makes no preview call, leaves the cache directory and the status
\* line as they were.
C11_DownloadNeedsSelection ==
    [][ (presses' = presses + 1 /\ (var_champion = "" \/ var_skin = ""))
        => /\ messagebox' = WarningBox
           /\ UNCHANGED << downloads, loads, previews, last_preview >>
           /\ skin_cache' = skin_cache
           /\ var_status' = var_status ]_vars

\* C11 witness: with a champion but no skin selected the button has been
\* clicked; the warning is shown and no download runs.
C11_Witness ==
    /\ presses = 1
    /\ var_champion = "Ahri"
    /\ var_skin = ""
    /\ messagebox = WarningBox
    /\ downloads = EmptyBag

\* C12: a download whose request was answered with the archive has written
\* it into the cache directory, which it made first if it was absent.
C12_CacheDirEnsured ==
    \A t \in BagToSet(downloads) : t.fetched => t.wrote

\* a thread of task() returns in this step, the thread t
DownloadEnds(t) ==
    /\ BagCardinality(downloads') < BagCardinality(downloads)
    /\ downloads' = Ended(downloads, t)

\* C13: every started download ends; it asks the mirror once; and the step
\* in which it ends is either the success (it has written the archive: the
\* status says finished, the confirmation is shown, the file revealed) or
\* the failure (the status says error and the error box carries the message
\* of the exception), never both.
C13_DownloadEndsOneWay ==
    /\ (downloads # EmptyBag) ~> (downloads = EmptyBag)
    /\ [](\A t \in BagToSet(downloads) : t.tries <= 1)
    /\ [][ \A t \in BagToSet(downloads) :
             DownloadEnds(t) =>
               IF t.wrote
               THEN /\ t.error = <<>>
                    /\ var_status' = StatusDownloaded
                    /\ messagebox' = InfoBox(t.skin)
                    /\ explorer' = TargetFile(ZipName(t.skin))
               ELSE /\ t.error # <<>>
                    /\ var_status' = StatusDownloadError
                    /\ messagebox' = ErrorBox(t.error)
                    /\ explorer' = explorer ]_vars

\* C13 witness: a download has ended well: the archive is in the cache
\* directory, the confirmation shown and the file revealed.
C13_Witness ==
    /\ downloads = EmptyBag
    /\ messagebox = InfoBox("Dynasty Ahri")
    /\ explorer = TargetFile(ZipName("Dynasty Ahri"))
    /\ ZipName("Dynasty Ahri") \in skin_cache.files
    /\ var_status = StatusDownloaded

\* C14: no handler of a user event makes an HTTP request: the request of
\* check_url_exists, like every other, is made by a background thread.
C14_NoRequestInHandler == last_preview.check # "handler"

\* a step of a background thread of the selectors
WorkerStep ==
    \/ PopulateFetch \/ PopulateValues \/ PopulateStatus
    \/ \E t \in BagToSet(loads) :
         \/ LoadFetch(t) \/ LoadFilter(t) \/ LoadSetSkins(t) \/ LoadClearSkin(t)
         \/ LoadClearChromas(t) \/ LoadClearChroma(t) \/ LoadStatus(t)
    \/ \E t \in BagToSet(previews) : PreviewTask(t)

\* C15: no step of a background thread writes the champion list, the held
\* detail, a selection, a list of a selector, the status line or the
\* preview label: those are written by the handlers' thread only.
C15_WorkersWriteNothingShared ==
    [][ WorkerStep => UNCHANGED << champions, current_champion_data, sel_vars, list_vars,
                                   var_status, preview_text, preview_image >> ]_vars

\* the absolute URL of an http scheme
IsAbsolute(p) == StartsWith(p, HttpScheme) \/ StartsWith(p, HttpsScheme)
\* the CDN base, one slash, and then no further slash
OneSlashBehindBase(u) ==
    /\ StartsWith(u, CDragonBase \o <<"/">>)
    /\ ~StartsWith(u, CDragonBase \o <<"/", "/">>)

\* C16: an empty path gives the empty string and an absolute URL itself;
\* any other path p gives the same URL as '/' + p, with exactly one slash
\* between the CDN base and the path.
C16_LeadingSlashNormalized ==
    LET p == resolved.path
    IN /\ "plain" \in resolved.called =>
            /\ p = <<>> => resolved.plain = <<>>
            /\ IsAbsolute(p) => resolved.plain = p
            /\ (p # <<>> /\ ~IsAbsolute(p)) => OneSlashBehindBase(resolved.plain)
       /\ (resolved.called = {"plain", "slashed"} /\ p # <<>> /\ ~IsAbsolute(p)) =>
            resolved.plain = resolved.slashed

\* C17: once every detail load has ended, the status line does not tell the
\* outcome of an earlier champion selection in place of the most recent
\* one's: it is not "select a skin" when the most recent load failed, and
\* not an error of a skin load when it ended well.
C17_StatusOfLatestSelection ==
    loads = EmptyBag
    => /\ last_load.pc = "failed" => var_status # StatusSelectSkin
       /\ last_load.pc = "done" =>
            var_status \notin {ErrSkins("timeout"), ErrSkins("'skins'")}

\* C18: whenever no detail load runs and a detail with skins is held, the
\* skin list is the names of the non-base skins of that detail.
C18_SkinListOfHeldDetail ==
    (loads = EmptyBag /\ "skins" \in DOMAIN current_champion_data)
    => cmb_skin = NonBaseOf(current_champion_data.skins)

\* C19: every download thread asks for a skin that is a non-base skin of
\* the champion it asks for.
C19_DownloadPairConsistent ==
    \A t \in BagToSet(downloads) :
        t.skin \in Range(NonBaseOf(SkinsOfChampion(t.champ)))

====
